---- MODULE Spec2Model ----
(***************************************************************************)
(* Model of src/preprocess.py: the comment tokenizer over a chunked csv,   *)
(* the padder, the word frequency counter, and the vocabulary builder with *)
(* its parallel corpus rewrite.                                            *)
(*                                                                         *)
(* A Python str is a sequence of one-character strings; a Python dict is   *)
(* the sequence of its <<key, value>> items in insertion order; a csv file *)
(* is the sequence of its lines, each a record.                            *)
(***************************************************************************)
EXTENDS Integers, Sequences, FiniteSets, TLC

VARIABLES
    pc,             \* position of the running function
    corpus,         \* rows of the input csv file, in file order
    outFile,        \* lines of the output csv file
    dirExists,      \* whether the output directory exists
    io,             \* file-system operations performed so far, in order
    error,          \* exception that ended the call, or "none"
    chunk_size,     \* argument chunk_size
    index,          \* chunk index of the enumerate() loop
    lower_case,     \* argument lower_case of tokenize_comments
    word_count,     \* dict returned by count_occurrences
    threshold,      \* argument threshold of build_vocab
    uncommon_limit, \* argument uncommon_limit of build_vocab
    modify,         \* argument modify of build_vocab
    file_dir,       \* argument file_dir of build_vocab
    file_name,      \* argument file_name of build_vocab
    new_dir,        \* argument new_dir of build_vocab
    processes,      \* cpu_count()
    vocab,          \* dict word -> index
    reverse_vocab,  \* dict index -> word
    uncommon,       \* list of uncommon words
    chunk_splits,   \* sub-splits of the current chunk handed to the pool
    tasks,          \* state of each pool task of the current chunk
    results,        \* data frame returned by each finished task
    completed,      \* task numbers in the order the tasks finished
    comment,        \* argument comment of pad
    pad_to,         \* argument pad_to of pad
    padded,         \* pad(comment, pad_to)
    repadded        \* pad(padded, pad_to)

vars == <<pc, corpus, outFile, dirExists, io, error, chunk_size, index, lower_case,
          word_count, threshold, uncommon_limit, modify, file_dir, file_name,
          new_dir, processes, vocab, reverse_vocab, uncommon, chunk_splits,
          tasks, results, completed, comment, pad_to, padded, repadded>>

fsVars == <<corpus, outFile, dirExists, io, error, chunk_size, index, lower_case>>
vocabVars == <<word_count, threshold, uncommon_limit, modify, file_dir,
               file_name, new_dir, processes, vocab, reverse_vocab, uncommon>>
poolVars == <<chunk_splits, tasks, results, completed>>
padVars == <<comment, pad_to, padded, repadded>>

(***************************************************************************)
(* Bounds of the model.                                                    *)
(***************************************************************************)
MaxCommentLen == 3      \* characters of a comment handed to pad
MaxPadTo == 3           \* largest target length handed to pad
MaxTokens == 3          \* words of a corpus handed to count_occurrences
MaxThreshold == 1       \* largest threshold
MaxLimit == 1           \* largest uncommon_limit
MaxRows == 3            \* rows of a corpus that is streamed in chunks
MaxChunk == 3           \* largest chunk_size
MaxProcs == 3           \* largest cpu_count()

(***************************************************************************)
(* Python values.                                                          *)
(***************************************************************************)
None == "None"
Given == "given"

padword == <<"<", "p", "a", "d", ">">>
unknown == <<"<", "u", "n", "k", ">">>

Min(a, b) == IF a < b THEN a ELSE b

\* seq[lo : hi] for 0 <= lo, 0 <= hi
Slice(seq, lo, hi) == SubSeq(seq, lo + 1, Min(hi, Len(seq)))

RECURSIVE SplitFrom(_, _, _, _)
SplitFrom(s, i, cur, acc) ==
    IF i > Len(s) THEN Append(acc, cur)
    ELSE IF s[i] = " " THEN SplitFrom(s, i + 1, <<>>, Append(acc, cur))
    ELSE SplitFrom(s, i + 1, Append(cur, s[i]), acc)

\* s.split(' ')
Split(s) == SplitFrom(s, 1, <<>>, <<>>)

RECURSIVE Join(_)
\* ' '.join(list)
Join(list) ==
    IF list = <<>> THEN <<>>
    ELSE IF Len(list) = 1 THEN list[1]
    ELSE list[1] \o <<" ">> \o Join(Tail(list))

\* [x] * n
Repeat(x, n) == [i \in 1..n |-> x]

RECURSIVE Concat(_)
\* concatenation of a list of lists (pd.concat of row ranges)
Concat(lists) ==
    IF lists = <<>> THEN <<>> ELSE Head(lists) \o Concat(Tail(lists))

\* all sequences over S of length lo..hi
SeqsOf(S, lo, hi) == UNION {[1..n -> S] : n \in lo..hi}

(***************************************************************************)
(* dict                                                                    *)
(***************************************************************************)
DictKeys(d) == {d[i][1] : i \in 1..Len(d)}
DictValues(d) == {d[i][2] : i \in 1..Len(d)}
DictGet(d, k) == d[CHOOSE i \in 1..Len(d) : d[i][1] = k][2]

\* d[k] = v: an existing key keeps its place, a new key goes last
DictSet(d, k, v) ==
    IF k \in DictKeys(d)
    THEN [i \in 1..Len(d) |-> IF d[i][1] = k THEN <<k, v>> ELSE d[i]]
    ELSE Append(d, <<k, v>>)

(***************************************************************************)
(* csv files                                                               *)
(***************************************************************************)
HeaderLine == [kind |-> "header", id |-> 0, comment_text |-> <<>>]
StaleLine == [kind |-> "stale", id |-> 0, comment_text |-> <<>>]
Row(i, text) == [kind |-> "row", id |-> i, comment_text |-> text]

\* the rows of a file whose i-th comment is texts[i]
Rows(texts) == [i \in 1..Len(texts) |-> Row(i, texts[i])]

\* pd.read_csv(..., chunksize=size): the chunk with index k
Chunk(rows, size, k) == Slice(rows, k * size, (k + 1) * size)

\* number of chunks the reader yields for a file with at least one row
NumChunks(rows, size) == (Len(rows) + size - 1) \div size

\* mode 'a' used for every chunk
WriteModeAppend(k) == "a"

\* the mode/header choice made before each to_csv
WriteMode(k) == IF k = 0 THEN "w" ELSE "a"

\* chunk.to_csv(path, index=False, mode=mode, header=header)
ToCsv(file, k, rows) ==
    IF WriteMode(k) = "w" THEN <<HeaderLine>> \o rows ELSE file \o rows

(***************************************************************************)
(* count_occurrences                                                       *)
(***************************************************************************)
\* word_count != padword compares the dict with a str: always true
NotPadword(wc) == TRUE

RECURSIVE CountWords(_, _)
CountWords(wc, words) ==
    IF words = <<>> THEN wc
    ELSE LET word == Head(words)
             seen == IF word \in DictKeys(wc) THEN DictGet(wc, word) ELSE 0
         IN  IF NotPadword(wc)
             THEN CountWords(DictSet(wc, word, seen + 1), Tail(words))
             ELSE CountWords(wc, Tail(words))

RECURSIVE CountRows(_, _)
CountRows(wc, rows) ==
    IF rows = <<>> THEN wc
    ELSE CountRows(CountWords(wc, Split(Head(rows).comment_text)), Tail(rows))

count_occurrences(rows) == CountRows(<<>>, rows)

(***************************************************************************)
(* build_vocab: vocabulary                                                 *)
(***************************************************************************)
\* vocab[word] = occurrences
NewIndexFromCount(i, occurrences) == occurrences

\* vocab[word] = index
NewIndex(i, occurrences) == i

RECURSIVE VocabLoop(_, _, _, _, _, _)
\* the loop over enumerate(word_count.items()); i is the 1-based position
VocabLoop(wc, i, v, unc, thr, limit) ==
    IF i > Len(wc) THEN [vocab |-> v, uncommon |-> unc]
    ELSE LET word == wc[i][1]
             occurrences == wc[i][2]
         IN  IF occurrences > thr
             THEN VocabLoop(wc, i + 1, DictSet(v, word, NewIndex(i - 1, occurrences)),
                            unc, thr, limit)
             ELSE IF Len(unc) < limit
             THEN VocabLoop(wc, i + 1, v, Append(unc, word), thr, limit)
             ELSE VocabLoop(wc, i + 1, v, unc, thr, limit)

InitialVocab == <<<<unknown, -2>>, <<padword, -1>>>>

RECURSIVE ReverseLoop(_, _)
\* {id_: word for word, id_ in vocab.items()}
ReverseLoop(rv, items) ==
    IF items = <<>> THEN rv
    ELSE ReverseLoop(DictSet(rv, Head(items)[2], Head(items)[1]), Tail(items))

ReverseVocab(v) == ReverseLoop(<<>>, v)

(***************************************************************************)
(* build_vocab: corpus rewrite                                             *)
(***************************************************************************)
InList(word, list) == \E i \in 1..Len(list) : list[i] = word

ReplaceWords(text, unc, unk) ==
    LET words == Split(text)
    IN  Join([i \in 1..Len(words) |->
                IF InList(words[i], unc) THEN unk ELSE words[i]])

\* _find_replace(df, uncommon, unknown) on the task's own copy of df
FindReplace(df, unc, unk) ==
    [i \in 1..Len(df) |->
        [df[i] EXCEPT !.comment_text = ReplaceWords(df[i].comment_text, unc, unk)]]

\* step = chunk_size // processes
Step(size, n) == size \div n

\* [chunk.iloc[i * step: step * (i + 1)] for i in range(processes)]
ChunkSplits(chunk, size, n) ==
    [j \in 1..n |-> Slice(chunk, (j - 1) * Step(size, n), Step(size, n) * j)]

\* results gathered in the order the tasks finished
RejoinCompleted(res, order) == Concat([j \in 1..Len(order) |-> res[order[j]]])

\* pd.concat(results) of pool.starmap: results in the order of chunk_splits
Rejoin(res, order) == Concat(res)

(***************************************************************************)
(* count_occurrences followed by build_vocab on the same tokenized file    *)
(***************************************************************************)
Words == {<<"a">>, <<"b">>, padword, unknown}

\* corpora of one or two rows holding up to MaxTokens words in all
VocabCorpora ==
    {Rows(IF k >= Len(ws)
          THEN <<Join(ws)>>
          ELSE <<Join(SubSeq(ws, 1, k)), Join(SubSeq(ws, k + 1, Len(ws)))>>) :
        ws \in SeqsOf(Words, 1, MaxTokens), k \in 1..MaxTokens}

RewriteComments == {<<"a">>, <<"a", " ", "b">>}

\* corpora of up to MaxRows rows
RewriteCorpora == {Rows(texts) : texts \in SeqsOf(RewriteComments, 1, MaxRows)}

InitIdle ==
    /\ pc = "start"
    /\ io = <<>> /\ error = "none" /\ index = 0 /\ lower_case = TRUE
    /\ word_count = <<>> /\ vocab = <<>> /\ reverse_vocab = <<>>
    /\ uncommon = <<>>
    /\ chunk_splits = <<>> /\ tasks = <<>> /\ results = <<>> /\ completed = <<>>
    /\ comment = <<>> /\ pad_to = 0 /\ padded = <<>> /\ repadded = <<>>

\* every table, threshold, limit and argument combination on a small file
InitTables ==
    /\ corpus \in VocabCorpora
    /\ threshold \in 0..MaxThreshold
    /\ uncommon_limit \in 0..MaxLimit
    /\ modify \in BOOLEAN
    /\ file_dir \in {None, Given}
    /\ file_name \in {None, Given}
    /\ new_dir \in {None, Given}
    /\ ~modify => file_dir = None /\ file_name = None /\ new_dir = None
    \* with new_dir unset the rewrite would go to the file being streamed;
    \* the rewrite is modelled for a separate output file
    /\ (file_dir = Given /\ file_name = Given) => new_dir = Given
    /\ dirExists \in BOOLEAN
    /\ ~modify => ~dirExists
    /\ outFile = IF dirExists THEN <<StaleLine>> ELSE <<>>
    /\ chunk_size = 1
    /\ processes = 1

\* every chunk size and worker count on files of several rows
InitChunks ==
    /\ corpus \in RewriteCorpora
    /\ threshold = MaxThreshold
    /\ uncommon_limit = MaxLimit
    /\ modify = TRUE
    /\ file_dir = Given /\ file_name = Given /\ new_dir = Given
    /\ dirExists = TRUE
    /\ outFile = <<StaleLine>>
    /\ chunk_size \in 1..MaxChunk
    /\ processes \in 1..MaxProcs

InitVocab == InitIdle /\ (InitTables \/ InitChunks)

\* count_occurrences(file_name)
CountOccurrences ==
    /\ pc = "start"
    /\ word_count' = count_occurrences(corpus)
    /\ pc' = "counted"
    /\ UNCHANGED <<fsVars, threshold, uncommon_limit, modify, file_dir, file_name,
                   new_dir, processes, vocab, reverse_vocab, uncommon, poolVars,
                   padVars>>

\* build_vocab up to the reverse mapping
BuildVocab ==
    /\ pc = "counted"
    /\ LET built == VocabLoop(word_count, 1, InitialVocab, <<>>, threshold,
                              uncommon_limit)
       IN  /\ vocab' = built.vocab
           /\ uncommon' = built.uncommon
           /\ reverse_vocab' = ReverseVocab(built.vocab)
    /\ pc' = "built"
    /\ UNCHANGED <<fsVars, word_count, threshold, uncommon_limit, modify, file_dir,
                   file_name, new_dir, processes, poolVars, padVars>>

\* if not file_dir and not file_name
ArgumentsMissing(dir, name) == dir = None /\ name = None

\* modify is false: return vocab, reverse_vocab
ReturnVocab ==
    /\ pc = "built"
    /\ ~modify
    /\ pc' = "returned"
    /\ UNCHANGED <<fsVars, vocabVars, poolVars, padVars>>

\* raise ValueError('Arguments file_dir and file_name are required.')
RaiseValueError ==
    /\ pc = "built"
    /\ modify
    /\ ArgumentsMissing(file_dir, file_name)
    /\ error' = "ValueError"
    /\ pc' = "raised"
    /\ UNCHANGED <<corpus, outFile, dirExists, io, chunk_size, index, lower_case, vocabVars,
                   poolVars, padVars>>

\* os.path.join(None, new_dir) or os.path.exists(None)
ResolveDirFails ==
    /\ pc = "built"
    /\ modify
    /\ ~ArgumentsMissing(file_dir, file_name)
    /\ file_dir = None
    /\ error' = "TypeError"
    /\ pc' = "raised"
    /\ UNCHANGED <<corpus, outFile, dirExists, io, chunk_size, index, lower_case, vocabVars,
                   poolVars, padVars>>

\* if not os.path.exists(new_dir): os.makedirs(new_dir)
MakeDirs ==
    /\ pc = "built"
    /\ modify
    /\ ~ArgumentsMissing(file_dir, file_name)
    /\ file_dir # None
    /\ io' = io \o (IF dirExists THEN <<"stat">> ELSE <<"stat", "makedirs">>)
    /\ dirExists' = TRUE
    /\ pc' = "dir"
    /\ UNCHANGED <<corpus, outFile, error, chunk_size, index, lower_case, vocabVars, poolVars,
                   padVars>>

\* os.path.join(file_dir, None)
OpenFails ==
    /\ pc = "dir"
    /\ file_name = None
    /\ error' = "TypeError"
    /\ pc' = "raised"
    /\ UNCHANGED <<corpus, outFile, dirExists, io, chunk_size, index, lower_case, vocabVars,
                   poolVars, padVars>>

\* df_chunks = pd.read_csv(..., chunksize=chunk_size); processes = cpu_count()
OpenCsv ==
    /\ pc = "dir"
    /\ file_name # None
    /\ io' = Append(io, "open")
    /\ index' = 0
    /\ pc' = "loop"
    /\ UNCHANGED <<corpus, outFile, dirExists, error, chunk_size, lower_case, vocabVars,
                   poolVars, padVars>>

\* the next chunk is read, split and handed to a new pool
SubmitChunk ==
    /\ pc = "loop"
    /\ index < NumChunks(corpus, chunk_size)
    /\ chunk_splits' = ChunkSplits(Chunk(corpus, chunk_size, index), chunk_size,
                                   processes)
    /\ tasks' = [j \in 1..processes |-> "queued"]
    /\ results' = [j \in 1..processes |-> <<>>]
    /\ completed' = <<>>
    /\ pc' = "pool"
    /\ UNCHANGED <<fsVars, vocabVars, padVars>>

\* a pool worker takes task j
WorkerStart(j) ==
    /\ pc = "pool"
    /\ tasks[j] = "queued"
    /\ tasks' = [tasks EXCEPT ![j] = "running"]
    /\ UNCHANGED <<pc, fsVars, vocabVars, chunk_splits, results, completed, padVars>>

\* the worker returns _find_replace of its split
WorkerFinish(j) ==
    /\ pc = "pool"
    /\ tasks[j] = "running"
    /\ tasks' = [tasks EXCEPT ![j] = "done"]
    /\ results' = [results EXCEPT ![j] = FindReplace(chunk_splits[j], uncommon, unknown)]
    /\ completed' = Append(completed, j)
    /\ UNCHANGED <<pc, fsVars, vocabVars, chunk_splits, padVars>>

AllDone == \A j \in 1..Len(tasks) : tasks[j] = "done"

\* starmap returns; pd.concat(results); chunk.to_csv(...)
WriteChunk ==
    /\ pc = "pool"
    /\ AllDone
    /\ outFile' = ToCsv(outFile, index, Rejoin(results, completed))
    /\ io' = Append(io, "write")
    /\ index' = index + 1
    /\ pc' = "loop"
    /\ UNCHANGED <<corpus, dirExists, error, chunk_size, lower_case, vocabVars, poolVars,
                   padVars>>

\* print('Complete'); return vocab, reverse_vocab
Complete ==
    /\ pc = "loop"
    /\ index = NumChunks(corpus, chunk_size)
    /\ pc' = "returned"
    /\ UNCHANGED <<fsVars, vocabVars, poolVars, padVars>>

NextVocab ==
    \/ CountOccurrences
    \/ BuildVocab
    \/ ReturnVocab
    \/ RaiseValueError
    \/ ResolveDirFails
    \/ MakeDirs
    \/ OpenFails
    \/ OpenCsv
    \/ SubmitChunk
    \/ \E j \in 1..processes : WorkerStart(j)
    \/ \E j \in 1..processes : WorkerFinish(j)
    \/ WriteChunk
    \/ Complete

SpecVocab == InitVocab /\ [][NextVocab]_vars

Built == pc \notin {"start", "counted"}
Rewritten == pc = "returned" /\ modify
NumWrites(log) == Cardinality({i \in 1..Len(log) : log[i] = "write"})
LastOp(log) == IF log = <<>> THEN "none" ELSE log[Len(log)]

\* C1: the rewrite run with N workers writes the same file as a sequential
\* pass applying the substitution of _find_replace to every row of the corpus
\* (which is what the run with 1 worker writes).
C1_SameAsSequentialPass ==
    Rewritten => outFile = <<HeaderLine>> \o FindReplace(corpus, uncommon, unknown)

\* C2: the N sub-splits of every chunk are contiguous disjoint row ranges
\* covering the chunk, so the finished output has one row per input row, in
\* input order.
C2_SplitsCoverChunk ==
    /\ pc = "pool" => Concat(chunk_splits) = Chunk(corpus, chunk_size, index)
    /\ Rewritten =>
          /\ Len(outFile) = Len(corpus) + 1
          /\ \A i \in 1..Len(corpus) : outFile[i + 1].id = corpus[i].id

\* C3: the returned vocabulary maps the unknown token to -2 and the pad
\* token to -1, whatever the word count table holds.
C3_ReservedIndices ==
    Built => DictGet(vocab, unknown) = -2 /\ DictGet(vocab, padword) = -1

\* C4: the words with count > threshold get the indices 0, 1, ..., k-1 in the
\* table's enumeration order, with no gaps.
C4_DenseIndices ==
    Built =>
        \A i \in 1..Len(word_count) :
            word_count[i][2] > threshold =>
                DictGet(vocab, word_count[i][1]) =
                    Cardinality({m \in 1..(i - 1) : word_count[m][2] > threshold})

\* C5: with modify set and file_dir or file_name missing, build_vocab ends in
\* the ValueError, and no directory was created and no file opened or written.
C5_FailsBeforeIO ==
    (Built /\ pc # "built" /\ modify /\ (file_dir = None \/ file_name = None)) =>
        /\ pc = "raised"
        /\ error = "ValueError"
        /\ \A i \in 1..Len(io) : io[i] \notin {"makedirs", "open", "write"}

\* C8: reverse_vocab is the exact inverse of vocab, and both have the same
\* number of entries.
C8_ExactInverse ==
    Built =>
        /\ \A w \in DictKeys(vocab) :
              /\ DictGet(vocab, w) \in DictKeys(reverse_vocab)
              /\ DictGet(reverse_vocab, DictGet(vocab, w)) = w
        /\ \A i \in DictKeys(reverse_vocab) :
              /\ DictGet(reverse_vocab, i) \in DictKeys(vocab)
              /\ DictGet(vocab, DictGet(reverse_vocab, i)) = i
        /\ Len(reverse_vocab) = Len(vocab)
        /\ Cardinality(DictValues(vocab)) = Len(vocab)

C8_Witness ==
    /\ pc = "returned"
    /\ Len(reverse_vocab) >= 3
    /\ \E i \in 1..Len(vocab) : vocab[i][2] >= 1
    /\ uncommon # <<>>

\* C10: only the orchestrating process writes the output file; chunk k is
\* written only after every worker of chunk k has finished and before any
\* worker of chunk k+1 starts; the results are concatenated in the order the
\* sub-splits were submitted, whatever the order the workers finished in.
C10_OrchestratedWrites ==
    [][/\ (io' # io /\ LastOp(io') = "write") =>
            /\ pc = "pool" /\ AllDone
            /\ NumWrites(io) = index
            /\ outFile' = ToCsv(outFile, index,
                    Concat([j \in 1..processes |->
                                FindReplace(chunk_splits[j], uncommon, unknown)]))
       /\ outFile' # outFile => (io' # io /\ LastOp(io') = "write")
       /\ (\E j \in DOMAIN tasks \cap DOMAIN tasks' : tasks'[j] # tasks[j]) =>
            /\ NumWrites(io) = index
            /\ UNCHANGED <<outFile, io, index>>
      ]_vars

C10_Witness ==
    /\ pc = "loop"
    /\ NumWrites(io) >= 1
    /\ Len(completed) >= 2
    /\ completed[1] # 1
    /\ \A j \in 1..Len(results) : results[j] # <<>>
    /\ \E i \in 1..Len(outFile) : outFile[i].comment_text = <<"a", " ">> \o unknown

(***************************************************************************)
(* tokenize_comments                                                       *)
(***************************************************************************)
\* string.punctuation characters of the alphabet, and the two quote tokens
punctuations == {<<"!">>, <<",">>, <<"`", "`">>, <<"'", "'">>}

LowerChar(c) == IF c = "A" THEN "a" ELSE IF c = "B" THEN "b" ELSE c

\* word.lower()
Lower(word) == [i \in 1..Len(word) |-> LowerChar(word[i])]

\* nltk.word_tokenize on text whose tokens are separated by spaces
word_tokenize(text) == SelectSeq(Split(text), LAMBDA w : w # <<>>)

\* the body of the row loop: tokenize, drop punctuation, lower-case, rejoin
TokenizeText(text, lower) ==
    LET kept == SelectSeq(word_tokenize(text), LAMBDA w : w \notin punctuations)
    IN  Join([i \in 1..Len(kept) |-> IF lower THEN Lower(kept[i]) ELSE kept[i]])

TokenizeRows(rows, lower) ==
    [i \in 1..Len(rows) |->
        [rows[i] EXCEPT !.comment_text = TokenizeText(rows[i].comment_text, lower)]]

RawComments == {<<"A", " ", "!">>, <<"b">>}
RawCorpora == {Rows(texts) : texts \in SeqsOf(RawComments, 1, MaxRows)}

InitTokenize ==
    /\ pc = "tokenize"
    /\ corpus \in RawCorpora
    /\ chunk_size \in 1..MaxChunk
    /\ lower_case \in BOOLEAN
    /\ dirExists \in BOOLEAN
    /\ outFile = IF dirExists THEN <<StaleLine>> ELSE <<>>
    /\ io = <<>> /\ error = "none" /\ index = 0
    /\ word_count = <<>> /\ threshold = 0 /\ uncommon_limit = 0
    /\ modify = FALSE /\ file_dir = Given /\ file_name = Given /\ new_dir = Given
    /\ processes = 1 /\ vocab = <<>> /\ reverse_vocab = <<>> /\ uncommon = <<>>
    /\ chunk_splits = <<>> /\ tasks = <<>> /\ results = <<>> /\ completed = <<>>
    /\ comment = <<>> /\ pad_to = 0 /\ padded = <<>> /\ repadded = <<>>

\* read_csv(..., chunksize=chunk_size); makedirs(new_dir) if it is missing
TokenizeOpen ==
    /\ pc = "tokenize"
    /\ io' = io \o <<"open">> \o
                (IF dirExists THEN <<"stat">> ELSE <<"stat", "makedirs">>)
    /\ dirExists' = TRUE
    /\ index' = 0
    /\ pc' = "chunks"
    /\ UNCHANGED <<corpus, outFile, error, chunk_size, lower_case, vocabVars,
                   poolVars, padVars>>

\* one iteration of the chunk loop: transform every row, then to_csv
TokenizeChunk ==
    /\ pc = "chunks"
    /\ index < NumChunks(corpus, chunk_size)
    /\ outFile' = ToCsv(outFile, index,
                        TokenizeRows(Chunk(corpus, chunk_size, index), lower_case))
    /\ io' = Append(io, "write")
    /\ index' = index + 1
    /\ UNCHANGED <<pc, corpus, dirExists, error, chunk_size, lower_case, vocabVars,
                   poolVars, padVars>>

\* print('Tokenization complete.')
TokenizeDone ==
    /\ pc = "chunks"
    /\ index = NumChunks(corpus, chunk_size)
    /\ pc' = "tokenized"
    /\ UNCHANGED <<fsVars, vocabVars, poolVars, padVars>>

NextTokenize == TokenizeOpen \/ TokenizeChunk \/ TokenizeDone

SpecTokenize == InitTokenize /\ [][NextTokenize]_vars

\* C7: chunk 0 overwrites the output file and writes the header, every later
\* chunk is appended without a header, in increasing chunk index, so after k
\* chunks the file is the header followed by the transformed rows of the
\* first k chunks in input order, and after the last chunk by those of the
\* whole input, as in a single pass over all rows.
C7_HeaderThenRowsInOrder ==
    /\ (pc = "chunks" /\ index = 0) => outFile \in {<<>>, <<StaleLine>>}
    /\ (pc = "chunks" /\ index >= 1) =>
          /\ NumWrites(io) = index
          /\ outFile = <<HeaderLine>> \o
                TokenizeRows(Slice(corpus, 0, index * chunk_size), lower_case)
    /\ pc = "tokenized" =>
          outFile = <<HeaderLine>> \o TokenizeRows(corpus, lower_case)

C7_Witness ==
    /\ pc = "tokenized"
    /\ index >= 2
    /\ Len(corpus) % chunk_size # 0
    /\ io[3] = "write"
    /\ \E i \in 1..Len(outFile) : outFile[i].comment_text = <<"a">>

(***************************************************************************)
(* add_padding.pad                                                         *)
(***************************************************************************)
\* comment_list[: pad_to] cut one token short
TruncateShort(comment_list, n) == Slice(comment_list, 0, n - 1)

\* the else branch leaving the list as it is
TruncateNever(comment_list, n) == comment_list

\* comment_list[: pad_to]
Truncate(comment_list, n) == Slice(comment_list, 0, n)

PadList(comment_list, n) ==
    LET short == n - Len(comment_list)
    IN  IF short > 0
        THEN comment_list \o Repeat(padword, short)
        ELSE Truncate(comment_list, n)

pad(c, n) == Join(PadList(Split(c), n))

PadAlphabet == {"a", " "}
PadComments == SeqsOf(PadAlphabet, 0, MaxCommentLen)

InitPad ==
    /\ pc = "pad"
    /\ comment \in PadComments
    /\ pad_to \in 0..MaxPadTo
    /\ padded = <<>>
    /\ repadded = <<>>
    /\ corpus = <<>> /\ outFile = <<>> /\ dirExists = FALSE /\ io = <<>>
    /\ error = "none" /\ chunk_size = 1 /\ index = 0 /\ lower_case = TRUE
    /\ word_count = <<>> /\ threshold = 0 /\ uncommon_limit = 0
    /\ modify = FALSE /\ file_dir = None /\ file_name = None /\ new_dir = None
    /\ processes = 1 /\ vocab = <<>> /\ reverse_vocab = <<>> /\ uncommon = <<>>
    /\ chunk_splits = <<>> /\ tasks = <<>> /\ results = <<>> /\ completed = <<>>

\* df['comment_text'].apply(lambda comment: pad(comment, max_length))
ApplyPad ==
    /\ pc = "pad"
    /\ padded' = pad(comment, pad_to)
    /\ pc' = "padded"
    /\ UNCHANGED <<comment, pad_to, repadded, fsVars, vocabVars, poolVars>>

\* the padder run once more on its own output
ApplyPadAgain ==
    /\ pc = "padded"
    /\ repadded' = pad(padded, pad_to)
    /\ pc' = "repadded"
    /\ UNCHANGED <<comment, pad_to, padded, fsVars, vocabVars, poolVars>>

NextPad == ApplyPad \/ ApplyPadAgain

SpecPad == InitPad /\ [][NextPad]_vars

\* C6 as stated: for every comment and every target length L, the padded
\* string splits on single spaces into exactly L tokens.
C6_ExactlyLTokens ==
    pc = "padded" => Len(Split(padded)) = pad_to

\* C6 amended: for every target length L >= 1 the padded string splits into
\* exactly L tokens, the first min(n, L) being the comment's own tokens and
\* the rest pad tokens; for L = 0 the result is the empty string.
C6_ExactlyLTokensFromOne ==
    pc = "padded" =>
        LET tokens == Split(comment)
            out == Split(padded)
            kept == Min(Len(tokens), pad_to)
        IN  /\ pad_to >= 1 =>
                /\ Len(out) = pad_to
                /\ SubSeq(out, 1, kept) = SubSeq(tokens, 1, kept)
                /\ \A i \in (kept + 1)..pad_to : out[i] = padword
            /\ pad_to = 0 => padded = <<>>

C6_Witness ==
    /\ pc = "padded"
    /\ pad_to >= 1
    /\ Len(Split(comment)) > pad_to
    /\ comment # padded

\* C9: padding is idempotent: pad(pad(comment, L), L) = pad(comment, L).
C9_PadIdempotent ==
    pc = "repadded" => repadded = padded

C9_Witness ==
    /\ pc = "repadded"
    /\ padded # comment
    /\ Len(Split(comment)) < pad_to

====
